---- MODULE Spec2Model ----
(***************************************************************************)
(* Model of static/images/pdf_to_png.py: the batch PDF -> PNG converter.   *)
(*                                                                         *)
(* File names are sequences of one-character strings, so that suffix,      *)
(* stem, lower-casing, zero padding and string comparison are computed the *)
(* way pathlib and str compute them.  The two rendering libraries are the  *)
(* environment: a document is described by whether it opens, how many      *)
(* pages it has and which page (if any) fails to render; a path may be     *)
(* unwritable.  These facts are fixed for a directory, so that two runs    *)
(* over the same directory meet the same documents.                        *)
(***************************************************************************)
EXTENDS Integers, Sequences, FiniteSets, TLC

\* ------------------------------------------------------------------ bounds
MaxPages == 2      \* most pages a document of the model has
MaxFiles == 2      \* most candidate PDFs the directory of the model holds

\* ------------------------------------------------------------- characters
\* Code points of the characters the model's file names are made of.
Ord(c) ==
  CASE c = "." -> 46
    [] c = "0" -> 48 [] c = "1" -> 49 [] c = "2" -> 50 [] c = "3" -> 51
    [] c = "4" -> 52 [] c = "5" -> 53 [] c = "6" -> 54 [] c = "7" -> 55
    [] c = "8" -> 56 [] c = "9" -> 57
    [] c = "A" -> 65 [] c = "B" -> 66 [] c = "D" -> 68 [] c = "F" -> 70
    [] c = "P" -> 80
    [] c = "_" -> 95
    [] c = "a" -> 97 [] c = "b" -> 98 [] c = "d" -> 100 [] c = "f" -> 102
    [] c = "g" -> 103 [] c = "n" -> 110 [] c = "p" -> 112 [] c = "t" -> 116
    [] c = "x" -> 120

\* str.lower() on one character.
LowerChar(c) ==
  CASE c = "A" -> "a" [] c = "B" -> "b" [] c = "D" -> "d" [] c = "F" -> "f"
    [] c = "P" -> "p" [] OTHER -> c

\* str.lower()
Lower(s) == [i \in 1..Len(s) |-> LowerChar(s[i])]

\* Python's < on str: lexicographic by code point, a proper prefix first.
RECURSIVE StrLess(_, _)
StrLess(s, t) ==
  IF t = <<>> THEN FALSE
  ELSE IF s = <<>> THEN TRUE
  ELSE IF Ord(Head(s)) # Ord(Head(t)) THEN Ord(Head(s)) < Ord(Head(t))
  ELSE StrLess(Tail(s), Tail(t))

\* ------------------------------------------------------------------ pathlib
\* name.rfind("."), 1-based; 0 when the name has no dot.
LastDot(name) ==
  LET dots == {i \in 1..Len(name) : name[i] = "."}
  IN  IF dots = {} THEN 0 ELSE CHOOSE i \in dots : \A j \in dots : j <= i

\* PurePath.suffix: the last dot-component, unless the dot leads or ends the name.
Suffix(name) ==
  LET i == LastDot(name)
  IN  IF 1 < i /\ i < Len(name) THEN SubSeq(name, i, Len(name)) ELSE <<>>

\* PurePath.stem
Stem(name) ==
  LET i == LastDot(name)
  IN  IF 1 < i /\ i < Len(name) THEN SubSeq(name, 1, i - 1) ELSE name

DotPdf == <<".", "p", "d", "f">>
DotPng == <<".", "p", "n", "g">>

\* ------------------------------------------------------------- formatting
DigitChar(d) == <<"0", "1", "2", "3", "4", "5", "6", "7", "8", "9">>[d + 1]

RECURSIVE Digits(_)
Digits(n) == IF n < 10 THEN <<DigitChar(n)>>
             ELSE Digits(n \div 10) \o <<DigitChar(n % 10)>>

RECURSIVE ZeroFill(_, _)
ZeroFill(s, width) == IF Len(s) >= width THEN s ELSE ZeroFill(<<"0">> \o s, width)

\* format(n, "04d"): decimal, zero-filled to a MINIMUM width of four.
Format04d(n) == ZeroFill(Digits(n), 4)

\* f"{pdf_path.stem}_{page_index + 1:04d}.png", page being the 1-based number.
OutputName(name, page) == Stem(name) \o <<"_">> \o Format04d(page) \o DotPng

\* ------------------------------------------------------------ environment
\* Directory entries of the model.  Two names differ only in the case of the
\* extension (and so share a stem), one sorts differently with and without
\* case folding, one has ".pdf" inside but not as its suffix, one is a
\* sub-directory whose name ends in ".pdf".
a_pdf     == <<"a", ".", "p", "d", "f">>
a_PDF     == <<"a", ".", "P", "D", "F">>
B_pdf     == <<"B", ".", "p", "d", "f">>
B_pdf_txt == <<"B", ".", "p", "d", "f", ".", "t", "x", "t">>
d_pdf     == <<"d", ".", "p", "d", "f">>

PdfNames   == {a_pdf, a_PDF, B_pdf}
OtherNames == {B_pdf_txt, d_pdf}

\* What the rendering libraries will find in a regular file: whether it
\* opens, its page count, and the page whose rendering raises (0: none).
DocKinds ==
  {[isFile |-> TRUE, opens |-> FALSE, pages |-> 0, bad |-> 0]} \cup
  {k \in [isFile : {TRUE}, opens : {TRUE}, pages : 0..MaxPages, bad : 0..MaxPages] :
     k.bad <= k.pages}

OtherEntry(n) == [isFile |-> (n # d_pdf), opens |-> FALSE, pages |-> 0, bad |-> 0]

Directories ==
  UNION {
    {[n \in S \cup OtherNames |-> IF n \in S THEN f[n] ELSE OtherEntry(n)] :
       f \in [S -> DocKinds]} :
    S \in {T \in SUBSET PdfNames : Cardinality(T) <= MaxFiles}}

\* The output path that may exist before the first run, and the one that may
\* be unwritable (a write to it raises).
PrePaths        == {OutputName(a_pdf, 1)}
UnwritablePaths == {OutputName(a_pdf, MaxPages)}

\* Content of a PNG that was in the directory before the first run.
Preexisting == [doc |-> <<>>, page |-> 0, via |-> "preexisting"]

NoPath == <<>>

Perms(S) ==
  {s \in [1..Cardinality(S) -> S] : \A i, j \in 1..Cardinality(S) : s[i] = s[j] => i = j}

\* ------------------------------------------------------------------ state
VARIABLES
  dir,          \* directory entry name -> what it is (not changed by the tool)
  readonly,     \* output paths at which a write raises (not changed by the tool)
  avail,        \* which of the two libraries can be imported
  overwrite,    \* args.overwrite
  fs,           \* PNG files of the directory: path -> content
  fs_start,     \* fs when the current run started
  run,          \* 1 for the first run over the directory, 2 for the second
  pc,           \* "main", "select", "loop", "open", "page", "exited"
  pdf_files,    \* main: result of list_pdfs_in_current_directory()
  backend,      \* convert_all_pdfs: backend ("unset" before it is assigned)
  queue,        \* convert_all_pdfs: the files the for loop has not reached yet
  pdf_path,     \* the loop variable of the for loop (NoPath before the loop)
  page_index,   \* 0-based index of the page loop
  document,     \* the fitz documents that are open (by file name)
  generated,    \* output names computed for pdf_path, each with what became of it
  log,          \* the notices printed in this run
  exit_code,    \* process exit status (-1 while the run is going)
  uncaught,     \* the run ended in an uncaught exception
  probes,       \* how often each library's import was attempted in this run
  passed,       \* the (file, backend) pairs handed to a renderer in this run
  opened,       \* the files whose open/convert call was made in this run
  writes        \* save() calls that completed in this run

env_vars == <<dir, readonly, avail, overwrite>>
run_vars == <<pc, pdf_files, backend, queue, pdf_path, page_index, document,
              generated, log, exit_code, uncaught, probes, passed, opened, writes>>
vars == <<dir, readonly, avail, overwrite, fs, fs_start, run, pc, pdf_files,
          backend, queue, pdf_path, page_index, document, generated, log,
          exit_code, uncaught, probes, passed, opened, writes>>

Notice(tag, what, file) == [tag |-> tag, what |-> what, file |-> file]

\* ------------------------------------------------- the run, step by step
\* p.is_file(): the PNGs the tool wrote are regular files.
IsFile(n) == IF n \in DOMAIN dir THEN dir[n].isFile ELSE TRUE

\* The filter of list_pdfs_in_current_directory().
IsCandidate(n) == IsFile(n) /\ Lower(Suffix(n)) = DotPdf

\* The entries iterdir() yields, in no particular order.
Entries == DOMAIN dir \cup DOMAIN fs

\* sorted(..., key=lambda p: p.name.lower()): a stable sort, so that names
\* with equal keys keep the order they came in.
RECURSIVE InsertByKey(_, _)
InsertByKey(x, s) ==
  IF s = <<>> THEN <<x>>
  ELSE IF StrLess(Lower(x), Lower(Head(s))) THEN <<x>> \o s
  ELSE <<Head(s)>> \o InsertByKey(x, Tail(s))

RECURSIVE SortedByLowerName(_)
SortedByLowerName(s) ==
  IF s = <<>> THEN <<>>
  ELSE InsertByKey(s[Len(s)], SortedByLowerName(SubSeq(s, 1, Len(s) - 1)))

\* is_pymupdf_available() / is_pdf2image_available(): any exception of the
\* import is caught and answered False.
is_pymupdf_available == avail.pymupdf
is_pdf2image_available == avail.pdf2image

\* Mutant: the fallback is tried first.
ResolveBackendFallbackFirst ==
  IF is_pdf2image_available THEN "pdf2image"
  ELSE IF is_pymupdf_available THEN "pymupdf"
  ELSE "none"

\* The if/elif of convert_all_pdfs.
ResolveBackend ==
  IF is_pymupdf_available THEN "pymupdf"
  ELSE IF is_pdf2image_available THEN "pdf2image"
  ELSE "none"

\* The imports ResolveBackend attempts: the elif is evaluated only when the
\* if was false.
ProbesMade ==
  [pymupdf |-> 1, pdf2image |-> IF is_pymupdf_available THEN 0 ELSE 1]

\* fitz.open(path) returns a document / convert_from_path(path) returns the
\* images.  pdf2image renders every page inside this call, so a page that
\* cannot be rendered fails the call.
OpenSucceeds(b, name) ==
  IF b = "pymupdf" THEN dir[name].opens
  ELSE dir[name].opens /\ dir[name].bad = 0

\* len(document) / len(images)
TotalPages(name) == dir[name].pages

\* Mutant: pages are numbered from 0.
PageNumberFromZero(index) == index

\* page_index + 1 / enumerate(images, start=1)
PageNumber(index) == index + 1

Raster(name, page, b) == [doc |-> name, page |-> page, via |-> b]

\* What one iteration of the page loop does for the page at `index`:
\* "render_raised" (get_pixmap raises, PyMuPDF only), "skipped", "save_raised"
\* or "written".
PageOutcome(b, name, index, fsx) ==
  LET out == OutputName(name, PageNumber(index))
  IN  IF b = "pymupdf" /\ dir[name].bad = index + 1 THEN "render_raised"
      ELSE IF out \in DOMAIN fsx /\ ~overwrite THEN "skipped"
      ELSE IF out \in readonly THEN "save_raised"
      ELSE "written"

\* pixmap.save(path) / image.save(path, "PNG")
Save(fsx, path, img) ==
  [p \in DOMAIN fsx \cup {path} |-> IF p = path THEN img ELSE fsx[p]]

\* Mutant: close() only at the end of the loop, not when a page raised.
FinallyOnlyOnSuccess(handles, name, raised) ==
  IF raised THEN handles ELSE handles \ {name}

\* The finally clause of convert_with_pymupdf: document.close(), whether the
\* page loop ended normally or raised.  convert_with_pdf2image holds no handle.
Finally(handles, name, raised) == handles \ {name}

Init ==
  /\ dir \in Directories
  /\ readonly \in SUBSET UnwritablePaths
  /\ avail \in [pymupdf : BOOLEAN, pdf2image : BOOLEAN]
  /\ overwrite \in BOOLEAN
  /\ fs \in {[p \in P |-> Preexisting] : P \in SUBSET PrePaths}
  /\ fs_start = fs
  /\ run = 1
  /\ pc = "main"
  /\ pdf_files = <<>>
  /\ backend = "unset"
  /\ queue = <<>>
  /\ pdf_path = NoPath
  /\ page_index = 0
  /\ document = {}
  /\ generated = <<>>
  /\ log = <<>>
  /\ exit_code = -1
  /\ uncaught = FALSE
  /\ probes = [pymupdf |-> 0, pdf2image |-> 0]
  /\ passed = <<>>
  /\ opened = {}
  /\ writes = 0

\* Mutant: main() without the early return.
MainNoEarlyReturn ==
  /\ pc = "main"
  /\ \E e \in Perms({n \in Entries : IsCandidate(n)}) :
       /\ pdf_files' = e
       /\ pc' = "select"
       /\ UNCHANGED <<log, exit_code>>
  /\ UNCHANGED <<env_vars, fs, fs_start, run, backend, queue, pdf_path, page_index,
                 document, generated, uncaught, probes, passed, opened, writes>>

\* main(): scan the directory; with no PDF, say so and return.
Main ==
  /\ pc = "main"
  /\ \E e \in Perms({n \in Entries : IsCandidate(n)}) :
       /\ pdf_files' = e
       /\ IF e = <<>>
          THEN /\ log' = Append(log, Notice("INFO", "no_pdfs", NoPath))
               /\ pc' = "exited"
               /\ exit_code' = 0
          ELSE /\ pc' = "select"
               /\ UNCHANGED <<log, exit_code>>
  /\ UNCHANGED <<env_vars, fs, fs_start, run, backend, queue, pdf_path, page_index,
                 document, generated, uncaught, probes, passed, opened, writes>>

\* Mutant: the error is printed but sys.exit(1) is missing.
SelectBackendNoExit ==
  /\ pc = "select"
  /\ backend' = ResolveBackend
  /\ probes' = [k \in {"pymupdf", "pdf2image"} |-> probes[k] + ProbesMade[k]]
  /\ log' = IF ResolveBackend = "none"
            THEN Append(log, Notice("ERROR", "no_backend", NoPath))
            ELSE log \o <<Notice("INFO", "backend", NoPath),
                          Notice("INFO", "settings", NoPath)>>
  /\ queue' = SortedByLowerName(pdf_files)
  /\ pc' = "loop"
  /\ UNCHANGED <<env_vars, fs, fs_start, run, pdf_files, pdf_path, page_index,
                 document, generated, uncaught, passed, opened, writes, exit_code>>

\* convert_all_pdfs, up to the for loop: pick the backend, exit(1) without
\* one, else print the settings and sort the files.
SelectBackend ==
  /\ pc = "select"
  /\ backend' = ResolveBackend
  /\ probes' = [k \in {"pymupdf", "pdf2image"} |-> probes[k] + ProbesMade[k]]
  /\ IF ResolveBackend = "none"
     THEN /\ log' = Append(log, Notice("ERROR", "no_backend", NoPath))
          /\ pc' = "exited"
          /\ exit_code' = 1
          /\ UNCHANGED queue
     ELSE /\ log' = log \o <<Notice("INFO", "backend", NoPath),
                             Notice("INFO", "settings", NoPath)>>
          /\ queue' = SortedByLowerName(pdf_files)
          /\ pc' = "loop"
          /\ UNCHANGED exit_code
  /\ UNCHANGED <<env_vars, fs, fs_start, run, pdf_files, pdf_path, page_index,
                 document, generated, uncaught, passed, opened, writes>>

\* The for loop of convert_all_pdfs takes the next file and calls the
\* renderer of the selected backend (anything but "pymupdf" goes to pdf2image).
NextFile ==
  /\ pc = "loop"
  /\ queue # <<>>
  /\ pdf_path' = Head(queue)
  /\ queue' = Tail(queue)
  /\ passed' = Append(passed, [file |-> Head(queue), backend |-> backend])
  /\ pc' = "open"
  /\ UNCHANGED <<env_vars, fs, fs_start, run, pdf_files, backend, page_index,
                 document, generated, log, exit_code, uncaught, probes, opened, writes>>

\* The for loop is exhausted: convert_all_pdfs and main return.
Finish ==
  /\ pc = "loop"
  /\ queue = <<>>
  /\ pc' = "exited"
  /\ exit_code' = 0
  /\ UNCHANGED <<env_vars, fs, fs_start, run, pdf_files, backend, queue, pdf_path,
                 page_index, document, generated, log, uncaught, probes, passed,
                 opened, writes>>

\* Mutant: the open call without its try/except.
OpenUnguarded ==
  /\ pc = "open"
  /\ opened' = opened \cup {pdf_path}
  /\ generated' = <<>>
  /\ page_index' = 0
  /\ IF OpenSucceeds(backend, pdf_path)
     THEN /\ document' = IF backend = "pymupdf" THEN document \cup {pdf_path}
                         ELSE document
          /\ pc' = "page"
          /\ UNCHANGED <<uncaught, exit_code>>
     ELSE /\ uncaught' = TRUE
          /\ exit_code' = 1
          /\ pc' = "exited"
          /\ UNCHANGED document
  /\ UNCHANGED <<env_vars, fs, fs_start, run, pdf_files, backend, queue, pdf_path,
                 log, probes, passed, writes>>

\* fitz.open / convert_from_path inside its try: on an exception print the
\* error and return to the for loop.
Open ==
  /\ pc = "open"
  /\ opened' = opened \cup {pdf_path}
  /\ generated' = <<>>
  /\ page_index' = 0
  /\ IF OpenSucceeds(backend, pdf_path)
     THEN /\ document' = IF backend = "pymupdf" THEN document \cup {pdf_path}
                         ELSE document
          /\ pc' = "page"
          /\ UNCHANGED log
     ELSE /\ log' = Append(log, Notice("ERROR", "open", pdf_path))
          /\ pc' = "loop"
          /\ UNCHANGED document
  /\ UNCHANGED <<env_vars, fs, fs_start, run, pdf_files, backend, queue, pdf_path,
                 exit_code, uncaught, probes, passed, writes>>

\* One iteration of the page loop.  An exception of get_pixmap or save is
\* caught nowhere: the finally clause closes the document and the exception
\* leaves convert_all_pdfs and main, which ends the process with status 1.
RenderPage ==
  /\ pc = "page"
  /\ page_index < TotalPages(pdf_path)
  /\ LET o   == PageOutcome(backend, pdf_path, page_index, fs)
         out == OutputName(pdf_path, PageNumber(page_index))
         raised == o \in {"render_raised", "save_raised"}
     IN  /\ generated' = IF o = "render_raised" THEN generated
                         ELSE Append(generated, [name |-> out, outcome |-> o])
         /\ fs' = IF o = "written"
                  THEN Save(fs, out, Raster(pdf_path, PageNumber(page_index), backend))
                  ELSE fs
         /\ writes' = IF o = "written" THEN writes + 1 ELSE writes
         /\ log' = IF o = "written" THEN Append(log, Notice("OK", "page", out))
                   ELSE IF o = "skipped" THEN Append(log, Notice("SKIP", "page", out))
                   ELSE log
         /\ IF raised
            THEN /\ document' = Finally(document, pdf_path, TRUE)
                 /\ uncaught' = TRUE
                 /\ exit_code' = 1
                 /\ pc' = "exited"
                 /\ UNCHANGED page_index
            ELSE /\ page_index' = page_index + 1
                 /\ UNCHANGED <<document, uncaught, exit_code, pc>>
  /\ UNCHANGED <<env_vars, fs_start, run, pdf_files, backend, queue, pdf_path,
                 probes, passed, opened>>

\* The page loop is exhausted: the finally clause closes the document and the
\* renderer returns to the for loop.
EndOfPages ==
  /\ pc = "page"
  /\ page_index >= TotalPages(pdf_path)
  /\ document' = Finally(document, pdf_path, FALSE)
  /\ pc' = "loop"
  /\ UNCHANGED <<env_vars, fs, fs_start, run, pdf_files, backend, queue, pdf_path, page_index,
                 generated, log, exit_code, uncaught, probes, passed, opened, writes>>

\* The tool is started again in the same directory.
SecondRun ==
  /\ pc = "exited"
  /\ run = 1
  /\ run' = 2
  /\ fs_start' = fs
  /\ pc' = "main"
  /\ pdf_files' = <<>>
  /\ backend' = "unset"
  /\ queue' = <<>>
  /\ pdf_path' = NoPath
  /\ page_index' = 0
  /\ document' = {}
  /\ generated' = <<>>
  /\ log' = <<>>
  /\ exit_code' = -1
  /\ uncaught' = FALSE
  /\ probes' = [pymupdf |-> 0, pdf2image |-> 0]
  /\ passed' = <<>>
  /\ opened' = {}
  /\ writes' = 0
  /\ UNCHANGED <<env_vars, fs>>

\* One run of the tool.
Next == Main \/ SelectBackend \/ NextFile \/ Finish \/ Open \/ RenderPage \/ EndOfPages

Spec == Init /\ [][Next]_vars

\* Two runs in succession over the same directory.
NextTwice == Next \/ SecondRun

SpecTwice == Init /\ [][NextTwice]_vars

\* ---------------------------------------- the run as a function of the order
\* The page loop from `index` on: the files it leaves, and whether it raised.
RECURSIVE RenderPages(_, _, _, _)
RenderPages(b, name, index, fsx) ==
  IF index >= TotalPages(name) THEN [fs |-> fsx, raised |-> FALSE]
  ELSE LET o == PageOutcome(b, name, index, fsx)
       IN  IF o \in {"render_raised", "save_raised"} THEN [fs |-> fsx, raised |-> TRUE]
           ELSE IF o = "skipped" THEN RenderPages(b, name, index + 1, fsx)
           ELSE RenderPages(b, name, index + 1,
                  Save(fsx, OutputName(name, PageNumber(index)),
                       Raster(name, PageNumber(index), b)))

\* convert_with_pymupdf / convert_with_pdf2image on one file.
RenderFile(b, name, fsx) ==
  IF OpenSucceeds(b, name) THEN RenderPages(b, name, 0, fsx)
  ELSE [fs |-> fsx, raised |-> FALSE]

\* The for loop of convert_all_pdfs over `order`: the files it leaves.
RECURSIVE RunFiles(_, _, _)
RunFiles(b, order, fsx) ==
  IF order = <<>> THEN fsx
  ELSE LET r == RenderFile(b, Head(order), fsx)
       IN  IF r.raised THEN r.fs ELSE RunFiles(b, Tail(order), r.fs)

\* The order in which this run hands the files to the renderer.
ProcessingOrder == [i \in 1..Len(passed) |-> passed[i].file] \o queue

\* ------------------------------------------------------------------ claims
\* What the claims expect, written without the definitions above.
DecimalDigits == <<"0", "1", "2", "3", "4", "5", "6", "7", "8", "9">>

\* <stem>_<k zero-padded to 4 digits>.png for a name that ends in a
\* four-character ".pdf" extension (k < 10000).
ExpectedName(name, k) ==
  SubSeq(name, 1, Len(name) - 4) \o <<"_">> \o
  [i \in 1..4 |-> DecimalDigits[((k \div (10 ^ (4 - i))) % 10) + 1]] \o
  <<".", "p", "n", "g">>

\* Opening (PyMuPDF) or converting (pdf2image) the document fails.
OpenFailsOn(b, name) ==
  \/ ~dir[name].opens
  \/ b = "pdf2image" /\ dir[name].bad # 0

\* The renderer has been called for pdf_path and its open call succeeded.
RendererOpened ==
  /\ pdf_path # NoPath
  /\ pdf_path \in opened
  /\ ~OpenFailsOn(backend, pdf_path)

\* The renderer called for pdf_path is over: it returned or it raised.
RendererOver == pdf_path \in opened /\ pc \in {"loop", "exited"}

\* C1 as stated: once the renderer is over for a document that opened and has
\* N pages, it has generated exactly the N names <stem>_0001.png ..
\* <stem>_{N:04d}.png, in page order, and each was written or skipped.
C1_ExactlyNNames ==
  (RendererOpened /\ RendererOver) =>
    /\ Len(generated) = dir[pdf_path].pages
    /\ \A k \in 1..Len(generated) :
         /\ generated[k].name = ExpectedName(pdf_path, k)
         /\ generated[k].outcome \in {"written", "skipped"}

\* C1 amended: for a document that opened and has N pages the generated names
\* are, at every moment, <stem>_0001.png, <stem>_0002.png, ... in page order
\* without gap or duplicate, at most N of them; every name but the last was
\* written or skipped; once the renderer returns there are exactly N, each
\* written or skipped; when a page raised at page k there are k - 1 names
\* (the rendering raised) or k names of which the last was not written (the
\* write raised), and none for a later page.
C1_NamesArePrefix ==
  RendererOpened =>
    /\ Len(generated) <= dir[pdf_path].pages
    /\ \A k \in 1..Len(generated) :
         /\ generated[k].name = ExpectedName(pdf_path, k)
         /\ generated[k].outcome \in {"written", "skipped", "save_raised"}
         /\ k < Len(generated) => generated[k].outcome \in {"written", "skipped"}
         /\ generated[k].outcome = "written" => generated[k].name \in DOMAIN fs
         /\ generated[k].outcome = "save_raised" => uncaught
    /\ (RendererOver /\ ~uncaught) =>
         /\ Len(generated) = dir[pdf_path].pages
         /\ \A k \in 1..Len(generated) : generated[k].outcome \in {"written", "skipped"}
    /\ (RendererOver /\ uncaught) =>
         \/ /\ backend = "pymupdf"
            /\ dir[pdf_path].bad = Len(generated) + 1
         \/ /\ generated # <<>>
            /\ generated[Len(generated)].outcome = "save_raised"
            /\ generated[Len(generated)].name \in readonly

\* C1 witness: the renderer returned for a document of MaxPages pages, one
\* name skipped and another written.
C1_Witness ==
  /\ RendererOpened /\ RendererOver /\ ~uncaught
  /\ dir[pdf_path].pages = MaxPages
  /\ Len(generated) = MaxPages
  /\ \E j, k \in 1..Len(generated) :
       generated[j].outcome = "skipped" /\ generated[k].outcome = "written"

\* The backend the priority order gives for the libraries that are installed.
ExpectedBackend ==
  IF avail.pymupdf THEN "pymupdf" ELSE IF avail.pdf2image THEN "pdf2image" ELSE "none"

\* The directory holds no regular file whose name ends, in any case, in ".pdf".
NoPdfInDirectory ==
  \A n \in DOMAIN dir :
    ~(/\ dir[n].isFile
      /\ Len(n) > 4
      /\ Lower(SubSeq(n, Len(n) - 3, Len(n))) = <<".", "p", "d", "f">>)

Range(s) == {s[i] : i \in 1..Len(s)}

\* C2 as stated (two runs, SpecTwice): without --overwrite the second run
\* writes nothing and leaves the files as the first run left them.
C2_SecondRunWritesNothing ==
  (run = 2 /\ ~overwrite) => (writes = 0 /\ fs = fs_start)

\* C3 as stated: a failure while one file is processed never aborts the run:
\* with a backend available the run ends only after every candidate file was
\* handed to the renderer, and it ends with status 0.
C3_NoFailureAbortsTheRun ==
  (pc = "exited" /\ pdf_files # <<>> /\ ExpectedBackend # "none") =>
    /\ Range(pdf_files) = {passed[i].file : i \in 1..Len(passed)}
    /\ exit_code = 0

\* C4: when the open (PyMuPDF) or convert (pdf2image) call fails for a file,
\* that step prints one [ERROR] notice naming the file, generates no name and
\* writes nothing, opens no handle, and returns to the for loop with the run
\* still going and the remaining files still queued.
C4_OpenFailureIsolated ==
  [][(pc = "open" /\ OpenFailsOn(backend, pdf_path)) =>
       /\ pc' = "loop"
       /\ queue' = queue
       /\ log' = Append(log, [tag |-> "ERROR", what |-> "open", file |-> pdf_path])
       /\ generated' = <<>>
       /\ fs' = fs
       /\ writes' = writes
       /\ document' = document
       /\ exit_code' = -1
       /\ uncaught' = FALSE]_vars

\* C4 witness: the first file failed to open, its error was printed, nothing
\* was written, and the second file is being rendered.
C4_Witness ==
  /\ Len(passed) = 2
  /\ OpenFailsOn(backend, passed[1].file)
  /\ [tag |-> "ERROR", what |-> "open", file |-> passed[1].file] \in Range(log)
  /\ pc = "page"
  /\ pdf_path = passed[2].file
  /\ fs = fs_start

\* C5 as stated: the order in which the files are handed to the renderer is
\* the same for every enumeration order of the same candidate files.
C5_OrderIndependentOfEnumeration ==
  backend \in {"pymupdf", "pdf2image"} =>
    \A e \in Perms(Range(pdf_files)) : SortedByLowerName(e) = ProcessingOrder

\* C6: in a run that found a candidate PDF while neither library can be
\* imported, no document is ever opened, no file is handed to a renderer and
\* nothing is written; the run ends with the install instructions as its last
\* notice and with a non-zero status.
C6_NoBackendIsFatal ==
  (pdf_files # <<>> /\ ~avail.pymupdf /\ ~avail.pdf2image) =>
    /\ opened = {} /\ passed = <<>> /\ document = {}
    /\ writes = 0 /\ fs = fs_start
    /\ pc \in {"select", "exited"}
    /\ pc = "exited" =>
         /\ exit_code # 0 /\ exit_code # -1
         /\ ~uncaught
         /\ log = <<[tag |-> "ERROR", what |-> "no_backend", file |-> <<>>]>>

\* C6 witness: a run over a directory with a PDF has ended for want of a backend.
C6_Witness ==
  /\ pc = "exited" /\ pdf_files # <<>>
  /\ ~avail.pymupdf /\ ~avail.pdf2image
  /\ exit_code = 1

\* C7: in a directory without a candidate PDF the run never probes a backend,
\* opens a document or writes a file, whatever is installed; it ends with the
\* informational notice as its only output and with status 0.
C7_NoPdfsEndsQuietly ==
  NoPdfInDirectory =>
    /\ probes = [pymupdf |-> 0, pdf2image |-> 0]
    /\ backend = "unset"
    /\ opened = {} /\ passed = <<>> /\ document = {}
    /\ writes = 0 /\ fs = fs_start
    /\ pc \in {"main", "exited"}
    /\ pc = "exited" =>
         /\ exit_code = 0
         /\ log = <<[tag |-> "INFO", what |-> "no_pdfs", file |-> <<>>]>>

\* C7 witness: such a run has ended although a backend is installed.
C7_Witness ==
  /\ NoPdfInDirectory /\ pc = "exited" /\ exit_code = 0
  /\ avail.pymupdf

\* C8: in a run that reaches the backend selection, each library is probed at
\* most once and in priority order (pdf2image only when PyMuPDF failed to
\* import), the selection is the first library that imports, else none; the
\* selection never differs from that value afterwards and every file is
\* handed to the renderer of that backend.
C8_BackendResolvedOnce ==
  /\ probes.pymupdf <= 1 /\ probes.pdf2image <= 1
  /\ backend = "unset" => (probes = [pymupdf |-> 0, pdf2image |-> 0] /\ passed = <<>>)
  /\ backend # "unset" =>
       /\ backend = ExpectedBackend
       /\ probes.pymupdf = 1
       /\ probes.pdf2image = IF avail.pymupdf THEN 0 ELSE 1
  /\ \A i \in 1..Len(passed) :
       passed[i].backend = ExpectedBackend /\ ExpectedBackend # "none"

\* C8 witness: both libraries are installed and two files were rendered, both
\* with PyMuPDF.
C8_Witness ==
  /\ avail.pymupdf /\ avail.pdf2image
  /\ pc = "exited" /\ Len(passed) = 2
  /\ \A i \in 1..Len(passed) : passed[i].backend = "pymupdf"

\* C9: at most one document handle is open at any time, only for the file
\* being rendered and only inside its page loop; whenever the for loop takes
\* the next file or the run has ended, in whatever way, none is open.
C9_HandleReleased ==
  /\ Cardinality(document) <= 1
  /\ document \subseteq {pdf_path}
  /\ pc # "page" => document = {}
  /\ (pc = "page" /\ backend = "pymupdf") => document = {pdf_path}

\* C9 witness: a page raised after the document was opened with PyMuPDF and
\* the run has ended with no handle open.
C9_Witness ==
  /\ pc = "exited" /\ uncaught /\ backend = "pymupdf"
  /\ pdf_path \in opened /\ dir[pdf_path].opens
  /\ document = {}

\* C10 as stated: the files a run leaves do not depend on the order in which
\* the candidate files were processed (here: the orders that the enumeration
\* orders of the directory give).
C10_FilesIndependentOfOrder ==
  (pc = "exited" /\ backend \in {"pymupdf", "pdf2image"}) =>
    \A e \in Perms(Range(pdf_files)) :
      RunFiles(backend, SortedByLowerName(e), fs_start) = fs

====
